---------------------------- MODULE Spec2Model ----------------------------
(***************************************************************************)
(* A model of crossedbot/go-markov-image: the colour codec, the Markov     *)
(* transition model of an image (markov.ReadFile, AddColorTransition,      *)
(* GetNextColor, GetRandomColor) and the flood-fill synthesis              *)
(* (markov.Generate).                                                      *)
(*                                                                         *)
(* A colour is a tuple <<R, G, B, A>> of 8-bit channels (color.RGBA).  A   *)
(* uint32 colour key is kept as its two 16-bit halves <<hi, lo>>, the      *)
(* value being hi * 65536 + lo.  The absent colour (Go's nil color.Color)  *)
(* is Nil.                                                                 *)
(***************************************************************************)
EXTENDS Integers, Sequences, FiniteSets, Bags

VARIABLES
    keys,       \* markov.keys: encoded keys of the distinct colours, in order
    model,      \* markov.model: key -> sequence of transition keys
    format,     \* markov.format
    bounds,     \* markov.bounds (image.Rectangle)
    src,        \* the image decoded by the last successful ReadFile
    nReads,     \* number of successful ReadFile calls on this instance
    nAdds,      \* number of direct AddColorTransition calls by the caller
    pc,         \* where Generate is: "idle", "loop", "returned", "panic"
    im,         \* Generate's output image: [rect, pix], pix point -> colour
    stack,      \* Generate's frontier: a bag of points, popped in any order
    pushes,     \* number of stack.Push calls of the current Generate run
    assigned,   \* the points im.SetRGBA was called on in the current run
    call,       \* the last API call: [op, arg]
    ret         \* what the last call returned, Nil when it returns nothing

vars == <<keys, model, format, bounds, src, nReads, nAdds,
          pc, im, stack, pushes, assigned, call, ret>>

----------------------------------------------------------------------------
(* Bounds of the model *)

\* ReadFile inputs of the synthesis specification hold at most this many pixels.
MaxPixels == 4
\* A Generate run is followed up to this many stack pushes.
MaxPushes == 5
\* ReadFile inputs where the caller also adds transitions: at most this many
\* pixels.
MaxSmallPixels == 3
\* ReadFile inputs of the model-building specification: at most this many
\* pixels.
MaxModelPixels == 2
\* Direct AddColorTransition calls by the caller.
MaxAdds == 1
\* Successful ReadFile calls on one instance in the re-reading specification.
MaxReads == 2
\* ReadFile inputs of the scan specification: at most this many pixels.
MaxScanPixels == 9
\* Codec inputs: the byte values at most this far from 0, 128 and 256.
ByteSpread == 1

----------------------------------------------------------------------------
(* Colours *)

Nil == <<>>

RED    == <<255, 0, 0, 255>>
GREEN  == <<0, 255, 0, 255>>
ZERO   == <<0, 0, 0, 0>>

\* The colours source images are drawn from: one with a non-zero red channel,
\* one with red channel 0, and the fully transparent colour.
Palette == {RED, GREEN, ZERO}

\* The colours of the scan specification's grids.
ScanPalette == {RED, GREEN}

DefaultCompression == 1

\* color.RGBA.RGBA(): each 8-bit channel v widened to 16 bits as v | v<<8.
RGBA16(c) == [i \in 1..4 |-> c[i] * 257]

\* Go's uint8(x) conversion of a uint32.
U8(x) == x % 256

\* Mutant: each channel rounded to the nearest multiple of the threshold.
compressColorNearest(c, threshold) ==
    LET w == RGBA16(c)
    IN  [i \in 1..4 |->
            U8(((U8(w[i]) + threshold \div 2) \div threshold) * threshold)]

compressColor(c, threshold) ==
    LET w == RGBA16(c)
    IN  [i \in 1..4 |-> U8((U8(w[i]) \div threshold) * threshold)]

\* Mutant: the bytes packed lowest first.
packLittleEndian(b) == <<b[4] * 256 + b[3], b[2] * 256 + b[1]>>

\* uint32(b[0])<<24 | uint32(b[1])<<16 | uint32(b[2])<<8 | uint32(b[3]),
\* as the halves <<bits 31..16, bits 15..0>>.
pack(b) == <<b[1] * 256 + b[2], b[3] * 256 + b[4]>>

\* Mutant: the two middle bytes taken in the wrong order.
unpackSwapped(i) ==
    << (i[1] \div 256) % 256, (i[2] \div 256) % 256, i[1] % 256, i[2] % 256 >>

unpack(i) ==
    << (i[1] \div 256) % 256, i[1] % 256, (i[2] \div 256) % 256, i[2] % 256 >>

encodeColor(c) ==
    LET w == RGBA16(compressColor(c, DefaultCompression))
    IN  pack(<<U8(w[1]), U8(w[2]), U8(w[3]), U8(w[4])>>)

decodeColor(i) ==
    LET b == unpack(i) IN <<b[1], b[2], b[3], b[4]>>

colorToRGBA(c) ==
    LET w == RGBA16(c) IN <<U8(w[1]), U8(w[2]), U8(w[3]), U8(w[4])>>

\* The largest uint8, the type of compressColor's threshold.
MaxUint8 == 255

\* The bytes the codec is applied to: those around 0, the sign bit and the top.
ByteSamples ==
    {v \in 0..MaxUint8 :
        \E e \in {0, 128, 256} : v - e \in (0 - ByteSpread)..ByteSpread}

\* [4]uint8 arguments of pack.
ByteTuples ==
    {<<b0, b1, b2, b3>> :
        b0 \in ByteSamples, b1 \in ByteSamples,
        b2 \in ByteSamples, b3 \in ByteSamples}

\* uint32 arguments of unpack, as halves.
KeySamples ==
    LET halves == {x * 256 + y : x \in ByteSamples, y \in ByteSamples}
    IN  {<<hi, lo>> : hi \in halves, lo \in halves}

\* color.RGBA arguments of compressColor: the four channels differ.
CompressColours ==
    {<<v, w, MaxUint8 - v, MaxUint8 - w>> : v \in ByteSamples, w \in ByteSamples}

\* uint8 thresholds compressColor can divide by.
Thresholds == 1..MaxUint8

----------------------------------------------------------------------------
(* Geometry *)

\* Mutant: the offset below is missing.
adjacentNoDown == << <<-1, 0>>, <<0, -1>>, <<1, 0>> >>

adjacent == << <<-1, 0>>, <<0, -1>>, <<1, 0>>, <<0, 1>> >>

\* image.Rect(0, 0, w, h)
Rect(w, h) == [minX |-> 0, minY |-> 0, maxX |-> w, maxY |-> h]

MinX(b) == b.minX
MinY(b) == b.minY
MaxX(b) == b.maxX
MaxY(b) == b.maxY

\* The points <<x, y>> of a rectangle (Max is exclusive).
PointsOf(b) ==
    {<<x, y>> : x \in MinX(b)..(MaxX(b) - 1), y \in MinY(b)..(MaxY(b) - 1)}

\* p.Add(adj)
Add(p, adj) == <<p[1] + adj[1], p[2] + adj[2]>>

\* Mutant: the lower bounds taken as exclusive.
InBoundsExclusiveMin(b, p) ==
    /\ p[1] > MinX(b) /\ p[1] < MaxX(b)
    /\ p[2] > MinY(b) /\ p[2] < MaxY(b)

\* p.X >= m.MinX() && p.X < m.MaxX() && p.Y >= m.MinY() && p.Y < m.MaxY()
InBounds(b, p) ==
    /\ p[1] >= MinX(b) /\ p[1] < MaxX(b)
    /\ p[2] >= MinY(b) /\ p[2] < MaxY(b)

----------------------------------------------------------------------------
(* Source images: [w, h, px], px the colour at each point (im.At) *)

ImagesOver(colours, dims) ==
    UNION { {[w |-> d[1], h |-> d[2], px |-> f] :
                f \in [PointsOf(Rect(d[1], d[2])) -> colours]} : d \in dims }

\* The decoded images ReadFile is given in the synthesis and model-building
\* specifications: every grid of at most MaxPixels pixels over Palette.
Images ==
    ImagesOver(Palette,
               {d \in (1..MaxPixels) \X (1..MaxPixels) : d[1] * d[2] <= MaxPixels})

\* The images of the specifications in which the caller also edits the model:
\* every grid of at most MaxSmallPixels pixels over Palette.
SmallImages ==
    ImagesOver(Palette,
               {d \in (1..MaxSmallPixels) \X (1..MaxSmallPixels) :
                    d[1] * d[2] <= MaxSmallPixels})

\* The images of the model-building specification: every grid of at most
\* MaxModelPixels pixels over Palette.
ModelImages ==
    ImagesOver(Palette,
               {d \in (1..MaxModelPixels) \X (1..MaxModelPixels) :
                    d[1] * d[2] <= MaxModelPixels})

\* The grids of the scan specification: every grid of at most MaxScanPixels
\* pixels over ScanPalette (3 x 3 is the smallest grid with an interior pixel).
ScanImages ==
    ImagesOver(ScanPalette,
               {d \in (1..MaxScanPixels) \X (1..MaxScanPixels) :
                    d[1] * d[2] <= MaxScanPixels})

NoImage == [w |-> 0, h |-> 0, px |-> <<>>]

----------------------------------------------------------------------------
(* The transition model.  A model value is [keys, model]. *)

EmptyModel == [keys |-> <<>>, model |-> <<>>]

\* Mutant: a transition already in the list is not appended again.
AddTransitionDedup(m, c1, c2) ==
    LET key1 == encodeColor(c1)
        key2 == encodeColor(c2)
        old  == IF key1 \in DOMAIN m.model THEN m.model[key1] ELSE <<>>
    IN  [keys  |-> IF key1 \in DOMAIN m.model THEN m.keys
                   ELSE Append(m.keys, key1),
         model |-> [k \in DOMAIN m.model \cup {key1} |->
                        IF k = key1
                        THEN IF \E i \in 1..Len(old) : old[i] = key2
                             THEN old ELSE Append(old, key2)
                        ELSE m.model[k]]]

\* markov.AddColorTransition on a model value.
AddTransition(m, c1, c2) ==
    LET key1 == encodeColor(c1)
        key2 == encodeColor(c2)
        old  == IF key1 \in DOMAIN m.model THEN m.model[key1] ELSE <<>>
    IN  [keys  |-> IF key1 \in DOMAIN m.model THEN m.keys
                   ELSE Append(m.keys, key1),
         model |-> [k \in DOMAIN m.model \cup {key1} |->
                        IF k = key1 THEN Append(old, key2) ELSE m.model[k]]]

\* The in-bounds neighbours of p, in the order of `adjacent`.
Neighbours(b, p) ==
    SelectSeq([i \in 1..Len(adjacent) |-> Add(p, adjacent[i])],
              LAMBDA q : InBounds(b, q))

\* The loop over `adjacent` in ReadFile for the pixel p, from neighbour k on.
RECURSIVE ScanPixel(_, _, _, _)
ScanPixel(img, m, p, k) ==
    LET ns == Neighbours(Rect(img.w, img.h), p)
    IN  IF k > Len(ns) THEN m
        ELSE ScanPixel(img, AddTransition(m, img.px[p], img.px[ns[k]]), p, k + 1)

\* The scan order of ReadFile: x outermost, y inside.
ScanOrder(img) ==
    [i \in 1..(img.w * img.h) |-> <<(i - 1) \div img.h, (i - 1) % img.h>>]

\* The two loops over the pixels in ReadFile, from the i-th pixel on.
RECURSIVE ScanFrom(_, _, _)
ScanFrom(img, m, i) ==
    IF i > img.w * img.h THEN m
    ELSE ScanFrom(img, ScanPixel(img, m, ScanOrder(img)[i], 1), i + 1)

\* Mutant: the random index is always 0.
NextColorsFirstOnly(mdl, c) ==
    LET key == encodeColor(c)
    IN  IF key \in DOMAIN mdl THEN {decodeColor(mdl[key][1])} ELSE {Nil}

\* The possible results of GetNextColor(c) on the state space mdl.
NextColors(mdl, c) ==
    LET key == encodeColor(c)
    IN  IF key \in DOMAIN mdl
        THEN {decodeColor(mdl[key][i]) : i \in 1..Len(mdl[key])}
        ELSE {Nil}

\* The possible results of GetRandomColor(); none when rand.Int panics on an
\* empty key list.
RandomColors(ks) == {decodeColor(ks[i]) : i \in 1..Len(ks)}

----------------------------------------------------------------------------
(* Generate's image and stack *)

Unset == <<0, 0, 0, 0>>

\* No image: before Generate has allocated one.
NoIm == [rect |-> Rect(0, 0), pix |-> <<>>]

\* Mutant: the image allocated with width and height exchanged.
NewRGBASwapped(r) ==
    [rect |-> Rect(MaxY(r), MaxX(r)),
     pix  |-> [q \in PointsOf(Rect(MaxY(r), MaxX(r))) |-> Unset]]

\* Mutant: the image of the previous run is used again when it has the size.
NewRGBAReuse(r) ==
    IF im.rect = r /\ PointsOf(r) # {} THEN im
    ELSE [rect |-> r, pix |-> [q \in PointsOf(r) |-> Unset]]

\* image.NewRGBA(r): every byte of Pix is zero.
NewRGBA(r) == [rect |-> r, pix |-> [q \in PointsOf(r) |-> Unset]]

\* im.SetRGBA(x, y, c): a point outside the image's rectangle is ignored.
SetRGBA(img, q, c) ==
    IF InBounds(img.rect, q) THEN [img EXCEPT !.pix[q] = c] ELSE img

\* im.At(x, y): the zero colour outside the image's rectangle.
At(img, q) == IF InBounds(img.rect, q) THEN img.pix[q] ELSE Unset

\* im.Pix[im.PixOffset(p_.X, p_.Y)] == 0: the first byte of the pixel, its
\* red channel, is zero.
NotSet(img, q) == img.pix[q][1] = 0

\* Mutant: the point to the right of each point is pushed in its place.
RECURSIVE PushAllShifted(_, _)
PushAllShifted(stk, ps) ==
    IF ps = <<>> THEN stk
    ELSE PushAllShifted(stk (+) SetToBag({Add(Head(ps), <<1, 0>>)}), Tail(ps))

\* The frontier after stack.Push of each point of the sequence ps.
RECURSIVE PushAll(_, _)
PushAll(stk, ps) ==
    IF ps = <<>> THEN stk
    ELSE PushAll(stk (+) SetToBag({Head(ps)}), Tail(ps))

\* The loop over `adjacent` in Generate for the popped point p, from the k-th
\* offset on.  st is [im, c, pushed, ok]: the image, the current colour c, the
\* points set and pushed so far, and ok = FALSE once colorToRGBA(nil) has
\* panicked.  The result is the set of states the loop can end in.
RECURSIVE AdjLoop(_, _, _, _, _)
AdjLoop(b, mdl, p, k, st) ==
    IF k > Len(adjacent) \/ ~st.ok THEN {st}
    ELSE LET q == Add(p, adjacent[k])
         IN  IF InBounds(b, q) /\ NotSet(st.im, q)
             THEN UNION {
                    IF c2 = Nil
                    THEN {[st EXCEPT !.c = Nil, !.ok = FALSE]}
                    ELSE AdjLoop(b, mdl, p, k + 1,
                                 [im     |-> SetRGBA(st.im, q, colorToRGBA(c2)),
                                  c      |-> c2,
                                  pushed |-> Append(st.pushed, q),
                                  ok     |-> TRUE])
                    : c2 \in NextColors(mdl, st.c) }
             ELSE AdjLoop(b, mdl, p, k + 1, st)

----------------------------------------------------------------------------
(* The state after New() *)

Init ==
    /\ keys = <<>>
    /\ model = <<>>
    /\ format = ""
    /\ bounds = Rect(0, 0)
    /\ src = NoImage
    /\ nReads = 0
    /\ nAdds = 0
    /\ pc = "idle"
    /\ im = NoIm
    /\ stack = EmptyBag
    /\ pushes = 0
    /\ assigned = {}
    /\ call = [op |-> "New", arg |-> Nil]
    /\ ret = Nil

\* No Generate call is running: the caller may use the model.
Callable == pc \in {"idle", "returned"}

\* What a call other than Generate leaves of an earlier Generate: nothing.
NoGenerate ==
    /\ pc' = "idle"
    /\ im' = NoIm
    /\ stack' = EmptyBag
    /\ pushes' = 0
    /\ assigned' = {}

\* ReadFile(filename) where the file decodes to img in the format fmt.
ReadFile(img, fmt) ==
    /\ Callable
    /\ IF fmt # "png"
       THEN UNCHANGED vars
       ELSE LET m == ScanFrom(img, [keys |-> keys, model |-> model], 1)
            IN  /\ format' = fmt
                /\ bounds' = Rect(img.w, img.h)
                /\ keys' = m.keys
                /\ model' = m.model
                /\ src' = img
                /\ nReads' = nReads + 1
                /\ call' = [op |-> "ReadFile", arg |-> Nil]
                /\ ret' = Nil
                /\ NoGenerate
                /\ UNCHANGED nAdds

\* AddColorTransition(c1, c2) called by the user of the model.
AddColorTransition(c1, c2) ==
    /\ Callable
    /\ LET m == AddTransition([keys |-> keys, model |-> model], c1, c2)
       IN  /\ keys' = m.keys
           /\ model' = m.model
    /\ nAdds' = nAdds + 1
    /\ call' = [op |-> "AddColorTransition", arg |-> <<c1, c2>>]
    /\ ret' = Nil
    /\ NoGenerate
    /\ UNCHANGED <<format, bounds, src, nReads>>

\* GetNextColor(c) called by the user of the model.
GetNextColor(c) ==
    /\ Callable
    /\ ret' \in NextColors(model, c)
    /\ call' = [op |-> "GetNextColor", arg |-> c]
    /\ NoGenerate
    /\ UNCHANGED <<keys, model, format, bounds, src, nReads, nAdds>>

\* GetRandomColor() called by the user of the model; rand.Int panics when the
\* key list is empty.
GetRandomColor ==
    /\ Callable
    /\ call' = [op |-> "GetRandomColor", arg |-> Nil]
    /\ IF keys = <<>>
       THEN /\ pc' = "panic"
            /\ ret' = Nil
            /\ UNCHANGED <<im, stack, pushes, assigned>>
       ELSE /\ ret' \in RandomColors(keys)
            /\ NoGenerate
    /\ UNCHANGED <<keys, model, format, bounds, src, nReads, nAdds>>

\* Mutant: on a model that cannot be generated from, the empty image is
\* returned.
GenerateInitNoPanic ==
    /\ Callable
    /\ call' = [op |-> "Generate", arg |-> Nil]
    /\ ret' = Nil
    /\ IF MaxX(bounds) <= 0 \/ MaxY(bounds) <= 0 \/ keys = <<>>
       THEN /\ pc' = "returned"
            /\ im' = [rect |-> bounds, pix |-> [q \in PointsOf(bounds) |-> Unset]]
            /\ stack' = EmptyBag
            /\ pushes' = 0
            /\ assigned' = {}
       ELSE \E x \in 0..(MaxX(bounds) - 1), y \in 0..(MaxY(bounds) - 1),
               c \in RandomColors(keys) :
                /\ im' = SetRGBA([rect |-> bounds,
                                  pix |-> [q \in PointsOf(bounds) |-> Unset]],
                                 <<x, y>>, colorToRGBA(c))
                /\ stack' = SetToBag({<<x, y>>})
                /\ pushes' = 1
                /\ assigned' = {<<x, y>>}
                /\ pc' = "loop"
    /\ UNCHANGED <<keys, model, format, bounds, src, nReads, nAdds>>

\* Generate up to its loop: the new image, the random start point and colour,
\* the first push.  rand.Int panics on a bound <= 0.
GenerateInit ==
    /\ Callable
    /\ call' = [op |-> "Generate", arg |-> Nil]
    /\ ret' = Nil
    /\ IF MaxX(bounds) <= 0 \/ MaxY(bounds) <= 0 \/ keys = <<>>
       THEN /\ pc' = "panic"
            /\ im' = NewRGBA(bounds)
            /\ stack' = EmptyBag
            /\ pushes' = 0
            /\ assigned' = {}
       ELSE \E x \in 0..(MaxX(bounds) - 1), y \in 0..(MaxY(bounds) - 1),
               c \in RandomColors(keys) :
                /\ im' = SetRGBA(NewRGBA(bounds), <<x, y>>, colorToRGBA(c))
                /\ stack' = SetToBag({<<x, y>>})
                /\ pushes' = 1
                /\ assigned' = {<<x, y>>}
                /\ pc' = "loop"
    /\ UNCHANGED <<keys, model, format, bounds, src, nReads, nAdds>>

\* One iteration of Generate's loop: pop a point, colour and push its
\* neighbours that are in bounds and not set.
GenerateStep ==
    /\ pc = "loop"
    /\ stack # EmptyBag
    /\ \E p \in BagToSet(stack) :
         \E st \in AdjLoop(bounds, model, p, 1,
                            [im |-> im, c |-> At(im, p), pushed |-> <<>>,
                             ok |-> TRUE]) :
            /\ pushes + Len(st.pushed) <= MaxPushes
            /\ im' = st.im
            /\ stack' = PushAll(stack (-) SetToBag({p}), st.pushed)
            /\ pushes' = pushes + Len(st.pushed)
            /\ assigned' = assigned \cup {st.pushed[i] : i \in 1..Len(st.pushed)}
            /\ pc' = IF st.ok THEN "loop" ELSE "panic"
    /\ UNCHANGED <<keys, model, format, bounds, src, nReads, nAdds, call, ret>>

\* The loop ends on an empty stack and Generate returns im.
GenerateReturn ==
    /\ pc = "loop"
    /\ stack = EmptyBag
    /\ pc' = "returned"
    /\ UNCHANGED <<keys, model, format, bounds, src, nReads, nAdds,
                   im, stack, pushes, assigned, call, ret>>

\* The codec's inputs: one call of pack, unpack or compressColor on a sampled
\* argument, not yet made.
CodecCalls ==
    {[op |-> "pack", arg |-> b] : b \in ByteTuples}
    \cup {[op |-> "unpack", arg |-> i] : i \in KeySamples}
    \cup {[op |-> "compressColor", arg |-> <<c, t>>] :
                c \in CompressColours, t \in Thresholds}

CodecInit ==
    /\ keys = <<>>
    /\ model = <<>>
    /\ format = ""
    /\ bounds = Rect(0, 0)
    /\ src = NoImage
    /\ nReads = 0
    /\ nAdds = 0
    /\ pc = "idle"
    /\ im = NoIm
    /\ stack = EmptyBag
    /\ pushes = 0
    /\ assigned = {}
    /\ call \in CodecCalls
    /\ ret = Nil

\* pack(b) on the drawn byte tuple.
Pack ==
    /\ call.op = "pack"
    /\ ret = Nil
    /\ ret' = pack(call.arg)
    /\ UNCHANGED <<keys, model, format, bounds, src, nReads, nAdds,
                   pc, im, stack, pushes, assigned, call>>

\* unpack(i) on the drawn key.
Unpack ==
    /\ call.op = "unpack"
    /\ ret = Nil
    /\ ret' = unpack(call.arg)
    /\ UNCHANGED <<keys, model, format, bounds, src, nReads, nAdds,
                   pc, im, stack, pushes, assigned, call>>

\* compressColor(c, threshold) on the drawn colour and threshold.
CompressColor ==
    /\ call.op = "compressColor"
    /\ ret = Nil
    /\ ret' = compressColor(call.arg[1], call.arg[2])
    /\ UNCHANGED <<keys, model, format, bounds, src, nReads, nAdds,
                   pc, im, stack, pushes, assigned, call>>

Formats == {"png", "gif"}

\* The program (main): one file is read into a new model and images are
\* generated from it.
Next ==
    \/ \E img \in Images, fmt \in Formats : nReads < 1 /\ ReadFile(img, fmt)
    \/ GenerateInit
    \/ GenerateStep
    \/ GenerateReturn

Spec == Init /\ [][Next]_vars

\* A user of the package who also adds transitions of their own before
\* generating.
AddNext ==
    \/ \E img \in SmallImages : nReads < 1 /\ ReadFile(img, "png")
    \/ \E c1 \in Palette, c2 \in Palette :
            nAdds < MaxAdds /\ AddColorTransition(c1, c2)
    \/ GenerateInit
    \/ GenerateStep
    \/ GenerateReturn

AddSpec == Init /\ [][AddNext]_vars

\* A user of the package who builds a model from one file and transitions of
\* their own, and queries it.
ModelNext ==
    \/ \E img \in ModelImages : nReads < 1 /\ ReadFile(img, "png")
    \/ \E c1 \in Palette, c2 \in Palette :
            nAdds < MaxAdds /\ AddColorTransition(c1, c2)
    \/ \E c \in Palette : GetNextColor(c)
    \/ GetRandomColor

ModelSpec == Init /\ [][ModelNext]_vars

\* A user of the package who reads several files into the same instance.
RereadNext ==
    \/ \E img \in ModelImages : nReads < MaxReads /\ ReadFile(img, "png")
    \/ \E c1 \in Palette, c2 \in Palette :
            nAdds < MaxAdds /\ AddColorTransition(c1, c2)

RereadSpec == Init /\ [][RereadNext]_vars

\* The scan of one larger grid.
ScanNext ==
    \E img \in ScanImages : nReads < 1 /\ ReadFile(img, "png")

ScanSpec == Init /\ [][ScanNext]_vars

\* A user of the package who calls GetRandomColor and Generate on whatever
\* model one file and transitions of their own have built, an empty one
\* included.
PrecondNext ==
    \/ \E img \in ModelImages : nReads < 1 /\ ReadFile(img, "png")
    \/ \E c1 \in Palette, c2 \in Palette :
            nAdds < MaxAdds /\ AddColorTransition(c1, c2)
    \/ GetRandomColor
    \/ GenerateInit
    \/ GenerateStep
    \/ GenerateReturn

PrecondSpec == Init /\ [][PrecondNext]_vars

\* The colour codec applied to sampled inputs.
CodecNext ==
    \/ Pack
    \/ Unpack
    \/ CompressColor

CodecSpec == CodecInit /\ [][CodecNext]_vars

----------------------------------------------------------------------------
(* Notions the properties are stated in *)

Range(s) == {s[i] : i \in DOMAIN s}

\* The model holds what one ReadFile on a new instance put there.
BuiltByReadFile == nReads = 1 /\ nAdds = 0

\* The keys of the colours of the pixels of an image.
SourceKeys(img) == {encodeColor(img.px[q]) : q \in DOMAIN img.px}

\* Every key that occurs in some transition list.
ListKeys(mdl) == UNION {Range(mdl[k]) : k \in DOMAIN mdl}

\* The sum of the lengths of the transition lists of the keys ks.
RECURSIVE SumLen(_, _)
SumLen(mdl, ks) ==
    IF ks = {} THEN 0
    ELSE LET k == CHOOSE x \in ks : TRUE
         IN  Len(mdl[k]) + SumLen(mdl, ks \ {k})

TotalTransitions(mdl) == SumLen(mdl, DOMAIN mdl)

\* Every colour of the source has at least one outgoing transition.
EveryColourHasTransition ==
    \A k \in SourceKeys(src) : k \in DOMAIN model /\ Len(model[k]) >= 1

\* Generate has returned an image made from a source of at least 2 x 2 pixels.
ReturnedFromGrid ==
    /\ pc = "returned"
    /\ BuiltByReadFile
    /\ src.w >= 2 /\ src.h >= 2
    /\ EveryColourHasTransition

----------------------------------------------------------------------------
(* C1 - termination within H*W pushes *)

\* C1 (as claimed): on a model built by ReadFile from a source of H*W >= 2
\* pixels, Generate pushes at most H*W points onto the frontier, whatever the
\* random choices - so its loop ends after at most H*W iterations.
\* Stated for the sources without the colour (0,0,0,0), which no sentinel
\* could tell from an unset pixel.
C1_PushesWithinPixelCount ==
    (/\ BuiltByReadFile
     /\ src.w * src.h >= 2
     /\ encodeColor(ZERO) \notin SourceKeys(src))
        => pushes <= src.w * src.h

----------------------------------------------------------------------------
(* C2 - coverage *)

\* C2 (as claimed): when Generate has returned on a model built from a source
\* of at least 2 x 2 pixels in which every colour has a transition, no pixel of
\* the output is all-zero.
C2_NoSentinelLeft ==
    ReturnedFromGrid => \A q \in PointsOf(bounds) : im.pix[q] # Unset

\* C2 (amended): under the same conditions every in-bounds coordinate has been
\* assigned, and holds a colour of the source; so a pixel is all-zero only
\* when (0,0,0,0) is itself a colour of the source.
C2_EveryPixelAssigned ==
    ReturnedFromGrid =>
        \A q \in PointsOf(bounds) :
            /\ q \in assigned
            /\ encodeColor(im.pix[q]) \in SourceKeys(src)
            /\ im.pix[q] = Unset => encodeColor(ZERO) \in SourceKeys(src)

\* Generate has returned a fully assigned 2 x 2 image one pixel of which was
\* assigned the transparent colour of the source.
C2_Witness ==
    /\ ReturnedFromGrid
    /\ src.w = 2 /\ src.h = 2
    /\ assigned = PointsOf(bounds)
    /\ \E q \in PointsOf(bounds) : im.pix[q] = Unset
    /\ \E q \in PointsOf(bounds) : im.pix[q] = RED

----------------------------------------------------------------------------
(* C3 - bounds *)

\* C3: while Generate runs and when it has returned, its image has exactly the
\* bounds recorded by the last successful ReadFile (those of the decoded
\* source), one pixel per point of them, and no SetRGBA call was on a point
\* outside them.
C3_BoundsPreserved ==
    pc \in {"loop", "returned", "panic"} =>
        /\ im.rect = bounds
        /\ nReads >= 1 => bounds = Rect(src.w, src.h)
        /\ DOMAIN im.pix = PointsOf(bounds)
        /\ assigned \subseteq PointsOf(bounds)

\* Generate has returned the image of a 1 x 3 source, fully assigned.
C3_Witness ==
    /\ pc = "returned"
    /\ src.w = 1 /\ src.h = 3
    /\ im.rect = Rect(1, 3)
    /\ assigned = PointsOf(Rect(1, 3))

----------------------------------------------------------------------------
(* C4 - colours come from the model *)

\* C4: in every state of a synthesis, the colour of every assigned output
\* pixel encodes to a key of the distinct-key list or of a transition list.
C4_ColoursFromModel ==
    \A q \in assigned :
        encodeColor(At(im, q)) \in Range(keys) \cup ListKeys(model)

\* Generate has returned a 2 x 2 image with all four pixels assigned, in more
\* than one colour.
C4_Witness ==
    /\ pc = "returned"
    /\ src.w = 2 /\ src.h = 2
    /\ assigned = PointsOf(bounds)
    /\ Cardinality({im.pix[q] : q \in PointsOf(bounds)}) >= 2

----------------------------------------------------------------------------
(* C5 - the 1 x 1 source *)

\* C5 (as claimed): after ReadFile of a 1 x 1 source no transition is recorded,
\* the distinct-key list is exactly the key of the pixel, and Generate does not
\* fail but returns a 1 x 1 image whose pixel is the source's colour.
C5_SinglePixelSource ==
    (BuiltByReadFile /\ src.w = 1 /\ src.h = 1) =>
        /\ TotalTransitions(model) = 0
        /\ keys = <<encodeColor(src.px[<<0, 0>>])>>
        /\ pc # "panic"
        /\ pc = "returned" =>
              /\ im.rect = Rect(1, 1)
              /\ im.pix[<<0, 0>>] = src.px[<<0, 0>>]

----------------------------------------------------------------------------
(* C6 - a missing transition *)

\* C6 (as claimed): after ReadFile and an AddColorTransition by the caller,
\* Generate's loop does not fail when the current colour has no entry in the
\* state space: the cell is skipped and the walk goes on.
C6_MissingTransitionNonFatal ==
    (nReads = 1 /\ nAdds = 1 /\ pushes >= 1) => pc # "panic"

----------------------------------------------------------------------------
(* C7 - model completeness *)

\* C7: after the scan of an H x W grid with H, W >= 2, the key of every pixel
\* of the source is a key of the state space with a non-empty transition list.
C7_ModelComplete ==
    (BuiltByReadFile /\ src.w >= 2 /\ src.h >= 2) =>
        \A q \in DOMAIN src.px :
            /\ pack(src.px[q]) \in DOMAIN model
            /\ Len(model[pack(src.px[q])]) >= 1

\* A 3 x 3 grid in two colours has been scanned.
C7_Witness ==
    /\ BuiltByReadFile
    /\ src.w = 3 /\ src.h = 3
    /\ Cardinality(SourceKeys(src)) = 2
    /\ DOMAIN model = SourceKeys(src)

----------------------------------------------------------------------------
(* C8 - transition count *)

\* The ordered pairs (pixel, orthogonal neighbour inside the grid).
AdjacentPairs(img) ==
    {pq \in (DOMAIN img.px) \X (DOMAIN img.px) :
        \/ pq[1][1] = pq[2][1] /\ (pq[1][2] - pq[2][2]) \in {-1, 1}
        \/ pq[1][2] = pq[2][2] /\ (pq[1][1] - pq[2][1]) \in {-1, 1}}

\* C8: after the scan of a new model over a grid, the transition lists hold as
\* many entries in total as the grid has ordered pairs (pixel, orthogonal
\* neighbour inside the grid); for H, W >= 2 that is 2 for each of the 4
\* corners, 3 for each other border pixel and 4 for each interior pixel.
C8_TransitionCount ==
    BuiltByReadFile =>
        /\ TotalTransitions(model) = Cardinality(AdjacentPairs(src))
        /\ (src.w >= 2 /\ src.h >= 2) =>
              TotalTransitions(model) =
                  2 * 4 + 3 * (2 * (src.w - 2) + 2 * (src.h - 2))
                        + 4 * ((src.w - 2) * (src.h - 2))

\* A 3 x 3 grid (4 corners, 4 edge pixels, 1 interior pixel) has been scanned
\* into 24 transitions.
C8_Witness ==
    /\ BuiltByReadFile
    /\ src.w = 3 /\ src.h = 3
    /\ TotalTransitions(model) = 24

----------------------------------------------------------------------------
(* C9 - GetNextColor *)

\* C9: a call GetNextColor(c) leaves the state space and the key list as they
\* are; with the key of c in the state space it returns a colour whose key is
\* an element of that key's list, and each element of the list can be
\* returned; with the key absent it returns none.
C9_GetNextColor ==
    [][ /\ call'.op = "GetNextColor" =>
            /\ model' = model
            /\ keys' = keys
            /\ IF pack(call'.arg) \in DOMAIN model
               THEN /\ ret' # Nil
                    /\ \E i \in 1..Len(model[pack(call'.arg)]) :
                          model[pack(call'.arg)][i] = pack(ret')
               ELSE ret' = Nil
        /\ \A c \in Palette :
              pack(c) \in DOMAIN model =>
                  {pack(d) : d \in NextColors(model, c)} = Range(model[pack(c)])
      ]_vars

\* GetNextColor(RED) has returned GREEN from a list that also holds another
\* key.
C9_Witness ==
    /\ call = [op |-> "GetNextColor", arg |-> RED]
    /\ ret = GREEN
    /\ pack(RED) \in DOMAIN model
    /\ Cardinality(Range(model[pack(RED)])) >= 2

----------------------------------------------------------------------------
(* C10 - ReadFile sets the model *)

\* C10 (as claimed): right after a successful ReadFile the key list, the state
\* space and the bounds are those of a scan of that image alone, whatever the
\* instance held before.
C10_ReadFileSetsModel ==
    call.op = "ReadFile" =>
        /\ [keys |-> keys, model |-> model] = ScanFrom(src, EmptyModel, 1)
        /\ bounds = Rect(src.w, src.h)
        /\ format = "png"

\* C11: pack and unpack are inverses of each other: unpack(pack(b)) = b for
\* every byte tuple b and pack(unpack(i)) = i for every key i, the first byte
\* (R) being the highest byte of the key and the last (A) the lowest.
C11_PackUnpackInverse ==
    /\ (call.op = "pack" /\ ret # Nil) =>
          /\ unpack(ret) = call.arg
          /\ ret[1] \in 0..65535 /\ ret[2] \in 0..65535
          /\ ret[1] \div 256 = call.arg[1]
          /\ ret[1] % 256 = call.arg[2]
          /\ ret[2] \div 256 = call.arg[3]
          /\ ret[2] % 256 = call.arg[4]
    /\ (call.op = "unpack" /\ ret # Nil) =>
          /\ pack(ret) = call.arg
          /\ \A k \in 1..4 : ret[k] \in 0..MaxUint8
          /\ ret[1] = call.arg[1] \div 256
          /\ ret[4] = call.arg[2] % 256

\* pack has been applied to four different bytes: the key is 0x017F80FF.
C11_Witness ==
    /\ call = [op |-> "pack", arg |-> <<1, 127, 128, 255>>]
    /\ ret = <<383, 33023>>

\* C12: compressColor(c, T) maps each channel v to floor(v / T) * T, applying
\* it again with the same T changes nothing, and T = 1 leaves c unchanged.
C12_CompressIdempotent ==
    (call.op = "compressColor" /\ ret # Nil) =>
        LET c == call.arg[1]
            T == call.arg[2]
        IN  /\ ret = [k \in 1..4 |-> (c[k] \div T) * T]
            /\ compressColor(ret, T) = ret
            /\ T = 1 => ret = c

\* A colour none of whose channels is a multiple of the threshold 5 has been
\* compressed.
C12_Witness ==
    /\ call = [op |-> "compressColor", arg |-> <<<<127, 1, 128, 254>>, 5>>]
    /\ ret = <<125, 0, 125, 250>>

\* A step of Generate's loop that pops a point: the popped point is never
\* pushed by its own iteration, so its count in the frontier drops.
IsLoopStep == pc = "loop" /\ stack # EmptyBag /\ stack' # stack

\* The point popped by the step.
Popped ==
    CHOOSE q \in BagToSet(stack) : CopiesIn(q, stack') < CopiesIn(q, stack)

\* The points pushed by the step.
PushedNow ==
    {q \in BagToSet(stack') : CopiesIn(q, stack') > CopiesIn(q, stack)}

\* C13: in every iteration of Generate's loop, the colour given to each
\* neighbour of the popped point p is an element of the transition list of the
\* colour p had when it was popped (sources holding the unset colour (0,0,0,0)
\* left aside).
C13_NeighbourFromPoppedColour ==
    [][(IsLoopStep /\ encodeColor(ZERO) \notin SourceKeys(src)) =>
         \A q \in PushedNow :
            encodeColor(im'.pix[q]) \in
                Range(model[encodeColor(im.pix[Popped])])]_vars

\* C14: a point that has been assigned a colour is not assigned or pushed
\* again by a later iteration, whatever the colours of the source, the unset
\* colour (0,0,0,0) itself left aside.
C14_SetOnce ==
    [][(IsLoopStep /\ encodeColor(ZERO) \notin SourceKeys(src)) =>
         \A q \in assigned :
            /\ CopiesIn(q, stack') <= CopiesIn(q, stack)
            /\ im'.pix[q] = im.pix[q]]_vars

\* C15: every point of the frontier lies within the bounds and has been
\* assigned a colour of the model in the output grid; right after Generate's
\* initialisation the frontier holds exactly the start point, which is within
\* the bounds and carries a colour of the distinct-key list, every other pixel
\* being unset.
C15_FrontierInvariant ==
    /\ \A q \in BagToSet(stack) :
          /\ InBounds(bounds, q)
          /\ q \in assigned
          /\ encodeColor(im.pix[q]) \in Range(keys)
    /\ (pc = "loop" /\ pushes = 1) =>
          \E p \in PointsOf(bounds) :
             /\ stack = SetToBag({p})
             /\ assigned = {p}
             /\ encodeColor(im.pix[p]) \in Range(keys)
             /\ \A q \in PointsOf(bounds) \ {p} : im.pix[q] = Unset

\* The frontier holds several points after some iterations of the loop.
C15_Witness ==
    /\ pc = "loop"
    /\ pushes >= 3
    /\ Cardinality(BagToSet(stack)) >= 2

\* The sequence s has no element twice.
NoDuplicates(s) == \A i \in DOMAIN s, j \in DOMAIN s : s[i] = s[j] => i = j

\* C16: AddColorTransition(c1, c2) appends key(c2) to the end of key(c1)'s
\* list, duplicates kept, and leaves every other list unchanged; a key that is
\* new as c1 goes to the end of the key list and the others keep their place;
\* after any calls the key list holds every key of the state space exactly
\* once and every key has a non-empty list.
C16_AddColorTransition ==
    [][/\ call'.op = "AddColorTransition" =>
            LET key1 == pack(colorToRGBA(call'.arg[1]))
                key2 == pack(colorToRGBA(call'.arg[2]))
            IN  /\ DOMAIN model' = DOMAIN model \cup {key1}
                /\ \A k \in DOMAIN model \ {key1} : model'[k] = model[k]
                /\ key1 \in DOMAIN model => /\ model'[key1] = model[key1] \o <<key2>>
                                             /\ keys' = keys
                /\ key1 \notin DOMAIN model => /\ model'[key1] = <<key2>>
                                                /\ keys' = keys \o <<key1>>
       /\ NoDuplicates(keys')
       /\ Range(keys') = DOMAIN model'
       /\ \A k \in DOMAIN model' : Len(model'[k]) >= 1
       /\ Len(keys') >= Len(keys) /\ SubSeq(keys', 1, Len(keys)) = keys
      ]_vars

\* A transition ReadFile had put in the list has been added a second time.
C16_Witness ==
    /\ call = [op |-> "AddColorTransition", arg |-> <<GREEN, RED>>]
    /\ nReads = 1
    /\ keys = <<pack(GREEN), pack(RED)>>
    /\ model[pack(GREEN)] = <<pack(RED), pack(RED)>>
    /\ model[pack(RED)] = <<pack(GREEN)>>

\* A step of a Generate call: its initialisation, an iteration of its loop or
\* its return.
IsGenerateStep ==
    \/ pc = "loop"
    \/ Callable /\ call'.op = "Generate" /\ pc' \in {"loop", "panic"}

\* C17: no step of Generate changes the state space, the key list, the format
\* or the bounds; every run, the first as well as one after an earlier run has
\* returned, starts on a new grid of the model's bounds in which only the
\* start point is set.
C17_GenerateReadOnly ==
    [][IsGenerateStep =>
         /\ keys' = keys /\ model' = model
         /\ format' = format /\ bounds' = bounds
         /\ (Callable /\ pc' = "loop") =>
               /\ im'.rect = bounds
               /\ \E p \in PointsOf(bounds) :
                     /\ assigned' = {p}
                     /\ stack' = SetToBag({p})
                     /\ \A q \in PointsOf(bounds) \ {p} : im'.pix[q] = Unset
      ]_vars

\* A Generate run has returned and the model is still the one ReadFile built
\* from the source: the next run starts from the same model.
C17_Witness ==
    /\ pc = "returned"
    /\ call.op = "Generate"
    /\ src.w * src.h >= 2
    /\ [keys |-> keys, model |-> model] = ScanFrom(src, EmptyModel, 1)
    /\ bounds = Rect(src.w, src.h)
    /\ format = "png"

\* The model as Generate and GetRandomColor must leave it.
ModelUnchanged ==
    /\ keys' = keys /\ model' = model
    /\ format' = format /\ bounds' = bounds

\* C18, as stated: Generate and GetRandomColor alike fail at once on a model
\* whose key list is empty or whose bounds hold no point, without returning
\* and without changing the model.
C18_FailFastEitherPrecondition ==
    [][/\ (Callable /\ call'.op \in {"Generate", "GetRandomColor"}
           /\ (keys = <<>> \/ PointsOf(bounds) = {})) =>
                /\ pc' = "panic"
                /\ ModelUnchanged
       /\ pc # "panic"
      ]_vars

\* C18: Generate fails at once on a model whose key list is empty or whose
\* bounds hold no point, and GetRandomColor on a model whose key list is
\* empty: the call panics, no grid and no colour is returned, nothing follows
\* the failure, and the model is unchanged.
C18_FailFast ==
    [][/\ (Callable /\ call'.op = "Generate"
           /\ (keys = <<>> \/ PointsOf(bounds) = {})) =>
                /\ pc' = "panic"
                /\ stack' = EmptyBag /\ assigned' = {}
                /\ \A q \in DOMAIN im'.pix : im'.pix[q] = Unset
                /\ ModelUnchanged
       /\ (Callable /\ call'.op = "GetRandomColor" /\ keys = <<>>) =>
                /\ pc' = "panic"
                /\ ret' = Nil
                /\ ModelUnchanged
       /\ pc # "panic"
      ]_vars

\* Generate has failed on a model with a key, built by AddColorTransition
\* alone, whose bounds hold no point.
C18_Witness ==
    /\ pc = "panic"
    /\ call.op = "Generate"
    /\ keys # <<>>
    /\ nReads = 0
    /\ bounds = Rect(0, 0)

\* C19, as stated: the scan of an H x W grid into a new model records
\* 2*H*W - 2*H - 2*W transitions.
C19_ClosedFormAsStated ==
    BuiltByReadFile =>
        TotalTransitions(model) =
            2 * src.h * src.w - 2 * src.h - 2 * src.w

\* C19: the scan of an H x W grid into a new model records
\* 4*H*W - 2*H - 2*W transitions: 4 for every pixel, less one for every pixel
\* of the two sides of length H and of the two sides of length W.
C19_ClosedForm ==
    BuiltByReadFile =>
        TotalTransitions(model) =
            4 * src.h * src.w - 2 * src.h - 2 * src.w

\* A grid 2 wide and 3 high has been scanned into 14 transitions.
C19_Witness ==
    /\ BuiltByReadFile
    /\ src.w = 2 /\ src.h = 3
    /\ RED \in Range(src.px) /\ GREEN \in Range(src.px)
    /\ TotalTransitions(model) = 14

=============================================================================
